---- MODULE Spec2Model ----
(***************************************************************************)
(* Model of PDdatasets/modal.py: the Modal base class (graph-metric        *)
(* selection with the self.metrics cache, ROI csv export, load_csv) and    *)
(* the overrides of its subclasses Asl, T1 and Dti.                        *)
(*                                                                         *)
(* Values read from a .mat file are nested numpy arrays.  A value is a     *)
(* record [k, v, e, f]: k = "num" (a scalar v), k = "arr" (an array or a   *)
(* numpy.void with elements e) or k = "struct" (a structured array with    *)
(* field names f and field values e).  Python's 0-based index i is         *)
(* element i + 1 of e.  Threshold values are floats; they are modelled as  *)
(* tenths (3 stands for 0.3), compared with = as list.index compares.      *)
(***************************************************************************)
EXTENDS Integers, Sequences, FiniteSets, TLC

VARIABLES
    cls,        \* class of the object: "Asl", "T1" or "Dti"
    metrics,    \* self.metrics: <<>> is None, <<entry>> a cached value
    src,        \* history: mat_name of the load that set self.metrics
    call,       \* history: the last metric call and its arguments
    ret,        \* history: value returned by the last metric call
    err,        \* history: exception raised by the last metric call
    was_set,    \* history: self.metrics was not None before the last call
    kept,       \* history: the last call left self.metrics as it was
    loaded,     \* history: loadmat read a mat file during the last call
    path,       \* history: index path walked by the last get_*_metric
    fs,         \* csv files on disk: path -> content
    ecall,      \* history: the last export / load_csv call
    eerr,       \* history: exception raised by the last export / load_csv
    changed,    \* history: the last export / load_csv call changed fs
    existed,    \* history: the call's csv path existed before the call
    table,      \* history: what load_csv handed back (read content)
    reader_kwargs \* history: keyword arguments pd.read_csv received

mvars == <<metrics, src, call, ret, err, was_set, kept, loaded, path>>
evars == <<fs, ecall, eerr, changed, existed, table, reader_kwargs>>
vars == <<cls, metrics, src, call, ret, err, was_set, kept, loaded, path,
          fs, ecall, eerr, changed, existed, table, reader_kwargs>>

\* number of ROIs (length of a nodal series, rows of the resilience array)
NumROI == 2

----------------------------------------------------------------------------
\* nested values

Num(n) == [k |-> "num", v |-> n, e |-> <<>>, f |-> <<>>]
Arr(s) == [k |-> "arr", v |-> 0, e |-> s, f |-> <<>>]
Struct(names, vals) == [k |-> "struct", v |-> 0, e |-> vals, f |-> names]
NoRet == [k |-> "none", v |-> 0, e |-> <<>>, f |-> <<>>]

\* a 1x1 2-D array holding x
Wrap2(x) == Arr(<<Arr(<<x>>)>>)

\* x[i] of Python: defined when x is indexable and i is in range
CanIndex(x, i) == x.k \in {"arr", "struct"} /\ i + 1 <= Len(x.e)
Index(x, i) == x.e[i + 1]

RECURSIVE CanDescend(_, _)
CanDescend(x, p) ==
    IF p = <<>> THEN TRUE
    ELSE CanIndex(x, Head(p)) /\ CanDescend(Index(x, Head(p)), Tail(p))

RECURSIVE Descend(_, _)
Descend(x, p) ==
    IF p = <<>> THEN x ELSE Descend(Index(x, Head(p)), Tail(p))

\* ndarray.flatten(): the scalars of x in row-major order, as a 1-D array
RECURSIVE FlatSeq(_)
FlatSeq(x) ==
    IF x.k = "num" THEN <<x>>
    ELSE IF x.e = <<>> THEN <<>>
    ELSE FlatSeq(Head(x.e)) \o FlatSeq(Arr(Tail(x.e)))

Flatten(x) == Arr(FlatSeq(x))

\* metrics[metric_name]: field access on a structured array
HasField(x, name) == \E i \in 1..Len(x.f) : x.f[i] = name
Field(x, name) == x.e[CHOOSE i \in 1..Len(x.f) : x.f[i] = name]

----------------------------------------------------------------------------
\* the mat files on disk

MatNames == {"brant.mat", "other.mat"}
MatInputs == MatNames \cup {"missing.mat"}
MetricNames == <<"degree", "transitivity", "resilience">>
MetricInputs == {"degree", "transitivity", "resilience", "nosuch"}
TypeInputs == {"intensity", "sparsity", "density"}
ValueInputs == {1, 3, 4}

MatId(m) == IF m = "brant.mat" THEN 1 ELSE 2
TypeId(t) == IF t = "intensity" THEN 1 ELSE 2

\* the number stored for (mat file, threshold family, entry i, metric j)
Datum(m, t, i, j) == MatId(m) * 1000 + TypeId(t) * 100 + i * 10 + j

\* slot 1 of a metric record: the per-node series, an (n, 1) array
NodalSlot(d) == Arr([r \in 1..NumROI |-> Arr(<<Num(d * 10 + r)>>)])
\* slot 0 of 'resilience': an (n, 2) array
ResilienceSlot(d) == Arr([r \in 1..NumROI |-> Arr(<<Num(d * 10 + r), Num(r)>>)])

\* one entry all_metrics[i][0]: a structured array keyed by metric name
Entry(m, t, i) ==
    Struct(MetricNames,
           << Wrap2(Wrap2(Arr(<<Wrap2(Num(Datum(m, t, i, 1))),
                                NodalSlot(Datum(m, t, i, 1))>>))),
              Wrap2(Wrap2(Arr(<<Wrap2(Num(Datum(m, t, i, 2)))>>))),
              Wrap2(Wrap2(Arr(<<ResilienceSlot(Datum(m, t, i, 3))>>))) >>)

\* loadmat(mat_path): the dictionary of one mat file
Mat(m) ==
    [thres_corr_use |-> Arr(<<Arr(<<Num(1), Num(3)>>)>>),
     calc_rsts_corr |-> Arr(<<Arr(<<Entry(m, "intensity", 0)>>),
                              Arr(<<Entry(m, "intensity", 1)>>)>>),
     thres_spar_use |-> Arr(<<Arr(<<Num(3), Num(5)>>)>>),
     calc_rsts_spar |-> Arr(<<Arr(<<Entry(m, "sparsity", 0)>>),
                              Arr(<<Entry(m, "sparsity", 1)>>)>>)]

----------------------------------------------------------------------------
\* Modal.load_graph_metrics

\* threshold_values / all_metrics of the chosen family
threshold_values(mat, threshold_type) ==
    IF threshold_type = "intensity"
    THEN Flatten(mat.thres_corr_use).e
    ELSE Flatten(mat.thres_spar_use).e

all_metrics(mat, threshold_type) ==
    IF threshold_type = "intensity" THEN mat.calc_rsts_corr
    ELSE mat.calc_rsts_spar

\* list.index(x): position of the first element equal to x, 0-based
InList(s, x) == \E i \in 1..Len(s) : s[i].v = x
ListIndex(s, x) ==
    (CHOOSE i \in 1..Len(s) :
        s[i].v = x /\ \A j \in 1..(i - 1) : s[j].v # x) - 1

\* load_graph_metrics with the assignment of self.metrics moved ahead of
\* the lookup of the threshold value
load_graph_metrics_early(cache, mat_name, threshold_type, threshold_value) ==
    IF mat_name \notin MatNames
    THEN [err |-> "FileNotFoundError", metrics |-> cache, loaded |-> FALSE]
    ELSE IF threshold_type \notin {"intensity", "sparsity"}
    THEN [err |-> "UnboundLocalError", metrics |-> cache, loaded |-> TRUE]
    ELSE LET tv == threshold_values(Mat(mat_name), threshold_type)
             am == all_metrics(Mat(mat_name), threshold_type)
         IN  IF ~InList(tv, threshold_value)
             THEN [err |-> "ValueError",
                   metrics |-> <<Index(Index(am, 0), 0)>>, loaded |-> TRUE]
             ELSE [err |-> "none",
                   metrics |-> <<Index(Index(am, ListIndex(tv, threshold_value)), 0)>>,
                   loaded |-> TRUE]

\* outcome of load_graph_metrics on an object whose self.metrics is cache:
\* the exception raised, the new self.metrics, whether loadmat succeeded
load_graph_metrics(cache, mat_name, threshold_type, threshold_value) ==
    IF mat_name \notin MatNames
    THEN [err |-> "FileNotFoundError", metrics |-> cache, loaded |-> FALSE]
    ELSE IF threshold_type \notin {"intensity", "sparsity"}
    THEN [err |-> "UnboundLocalError", metrics |-> cache, loaded |-> TRUE]
    ELSE LET tv == threshold_values(Mat(mat_name), threshold_type)
             am == all_metrics(Mat(mat_name), threshold_type)
         IN  IF ~InList(tv, threshold_value)
             THEN [err |-> "ValueError", metrics |-> cache, loaded |-> TRUE]
             ELSE [err |-> "none",
                   metrics |-> <<Index(Index(am, ListIndex(tv, threshold_value)), 0)>>,
                   loaded |-> TRUE]

Call(op, metric_name, mat_name, threshold_type, threshold_value) ==
    [op |-> op, metric_name |-> metric_name, mat_name |-> mat_name,
     threshold_type |-> threshold_type, threshold_value |-> threshold_value]

\* a direct call of load_graph_metrics; it returns self.metrics
LoadGraphMetrics ==
    \E mat_name \in MatInputs, threshold_type \in TypeInputs,
       threshold_value \in ValueInputs :
        \E r \in {load_graph_metrics(metrics, mat_name, threshold_type,
                                     threshold_value)} :
            /\ call' = Call("load_graph_metrics", "", mat_name,
                            threshold_type, threshold_value)
            /\ was_set' = (metrics # <<>>)
            /\ kept' = (r.metrics = metrics)
            /\ metrics' = r.metrics
            /\ src' = IF r.err = "none" THEN mat_name ELSE src
            /\ err' = r.err
            /\ loaded' = r.loaded
            /\ ret' = IF r.err = "none" THEN r.metrics[1] ELSE NoRet
            /\ path' = <<>>
            /\ UNCHANGED <<cls, evars>>

----------------------------------------------------------------------------
\* Modal.get_global_metric

\* the chain of [0] cut to five steps for every metric name
GlobalPath_shallow(metric_name) ==
    IF metric_name = "resilience" THEN <<0, 0, 0, 0, 0>>
    ELSE <<0, 0, 0, 0, 0>>

\* the chain of [0] with six steps for 'resilience'
GlobalPath_deep(metric_name) ==
    IF metric_name = "resilience" THEN <<0, 0, 0, 0, 0, 0>>
    ELSE <<0, 0, 0, 0, 0, 0, 0>>

\* the chain of [0] applied to metrics[metric_name]
GlobalPath(metric_name) ==
    IF metric_name = "resilience" THEN <<0, 0, 0, 0, 0>>
    ELSE <<0, 0, 0, 0, 0, 0, 0>>

\* indexing a loaded entry: the exception raised and the value returned.
\* An unknown field name makes numpy raise ValueError; it is written
\* "ValueError:field" to tell it from the ValueError of list.index
Walk(entry, metric_name, p) ==
    IF ~HasField(entry, metric_name)
    THEN [err |-> "ValueError:field", ret |-> NoRet]
    ELSE IF ~CanDescend(Field(entry, metric_name), p)
    THEN [err |-> "IndexError", ret |-> NoRet]
    ELSE [err |-> "none", ret |-> Descend(Field(entry, metric_name), p)]

GetGlobalMetric ==
    \E metric_name \in MetricInputs, mat_name \in MatInputs,
       threshold_type \in TypeInputs, threshold_value \in ValueInputs :
        \E r \in {load_graph_metrics(metrics, mat_name, threshold_type,
                                     threshold_value)} :
        \E w \in {IF r.err # "none" THEN [err |-> r.err, ret |-> NoRet]
                  ELSE Walk(r.metrics[1], metric_name, GlobalPath(metric_name))} :
            /\ call' = Call("get_global_metric", metric_name, mat_name,
                            threshold_type, threshold_value)
            /\ was_set' = (metrics # <<>>)
            /\ kept' = (r.metrics = metrics)
            /\ metrics' = r.metrics
            /\ src' = IF r.err = "none" THEN mat_name ELSE src
            /\ loaded' = r.loaded
            /\ err' = w.err
            /\ ret' = w.ret
            /\ path' = IF w.err = "none" THEN GlobalPath(metric_name) ELSE <<>>
            /\ UNCHANGED <<cls, evars>>

----------------------------------------------------------------------------
\* Modal.get_nodal_metric

NodalPath == <<0, 0, 0, 0, 1>>

\* metrics[metric_name][0][0][0][0][1].flatten()
NodalWalk(entry, metric_name) ==
    LET w == Walk(entry, metric_name, NodalPath)
    IN  IF w.err # "none" THEN w ELSE [err |-> "none", ret |-> Flatten(w.ret)]

GetNodalMetric ==
    \E metric_name \in MetricInputs, mat_name \in MatInputs,
       threshold_type \in TypeInputs, threshold_value \in ValueInputs :
        \E r \in {IF metrics = <<>>
                  THEN load_graph_metrics(metrics, mat_name, threshold_type,
                                          threshold_value)
                  ELSE [err |-> "none", metrics |-> metrics, loaded |-> FALSE]} :
        \E w \in {IF r.err # "none" THEN [err |-> r.err, ret |-> NoRet]
                  ELSE NodalWalk(r.metrics[1], metric_name)} :
            /\ call' = Call("get_nodal_metric", metric_name, mat_name,
                            threshold_type, threshold_value)
            /\ was_set' = (metrics # <<>>)
            /\ kept' = (r.metrics = metrics)
            /\ metrics' = r.metrics
            /\ src' = IF metrics = <<>> /\ r.err = "none" THEN mat_name ELSE src
            /\ loaded' = r.loaded
            /\ err' = w.err
            /\ ret' = w.ret
            /\ path' = IF w.err = "none" THEN NodalPath ELSE <<>>
            /\ UNCHANGED <<cls, evars>>

----------------------------------------------------------------------------
Classes == {"Asl", "T1", "Dti"}

NoCall == Call("", "", "", "", 0)

InitMetrics ==
    /\ metrics = <<>>
    /\ src = ""
    /\ call = NoCall
    /\ ret = NoRet
    /\ err = "none"
    /\ was_set = FALSE
    /\ kept = TRUE
    /\ loaded = FALSE
    /\ path = <<>>


----------------------------------------------------------------------------
\* paths and files

\* longest ROI result handed to an export (regions of the mask)
MaxRegions == 2
\* longest item / thickness list of a catROIs xml report
MaxItems == 2

directory == "d"

\* the mark each subclass passes to Modal.__init__
Mark(c) == IF c = "Asl" THEN "asl" ELSE IF c = "T1" THEN "t1" ELSE "dti"

\* a file name is a sequence of pieces; the piece "{}" is the placeholder
\* that str.format replaces by the mark
Format(filename, mark) ==
    [i \in 1..Len(filename) |-> IF filename[i] = "{}" THEN mark ELSE filename[i]]

build_path(c, filename, use_mark) ==
    <<directory>> \o (IF use_mark THEN Format(filename, Mark(c)) ELSE filename)

OutNames == {<<"roi_", "{}", ".csv">>}
ImageNames == {<<"a.nii">>, <<"gone.nii">>}
XmlNames == {<<"catROIs_", "{}", ".xml">>, <<"nocat_", "{}", ".xml">>}

\* input files present on disk (images and the xml report)
InputFiles == {<<directory, "a.nii">>, <<directory, "catROIs_", "t1", ".xml">>}

CsvPaths == {build_path(c, n, u) : c \in Classes, n \in OutNames, u \in BOOLEAN}

NoFile == [exists |-> FALSE, header |-> <<>>, rows |-> <<>>]

\* os.path.exists
Exists(fsys, p) == p \in InputFiles \/ (p \in DOMAIN fsys /\ fsys[p].exists)

\* an ROI result: a dict label -> value in iteration order (distinct labels)
RoiValues == {10}
ROIResults ==
    {r \in UNION {[1..n -> (1..MaxRegions) \X RoiValues] : n \in 0..MaxRegions} :
        \A i, j \in 1..Len(r) : i # j => r[i][1] # r[j][1]}

FeatureNames == {"Volume", "ID"}

\* csv.DictWriter.writerow({'ID': k, feature_name: v}): with feature_name
\* 'ID' the dict literal keeps one key, whose value is v
DictRow(kv, feature_name) ==
    IF feature_name = "ID" THEN <<kv[2], kv[2]>> ELSE <<kv[1], kv[2]>>

\* the file written with open(out_csv_path, 'a') instead of 'w'
WriteCsv_append(fsys, out_csv_path, feature_name, volumes) ==
    [fsys EXCEPT ![out_csv_path] =
        [exists |-> TRUE,
         header |-> IF fsys[out_csv_path].exists THEN fsys[out_csv_path].header
                    ELSE <<"ID", feature_name>>,
         rows |-> fsys[out_csv_path].rows \o
                  [i \in 1..Len(volumes) |-> DictRow(volumes[i], feature_name)]]]

\* open(out_csv_path, 'w'), writeheader(), one writerow per item
WriteCsv(fsys, out_csv_path, feature_name, volumes) ==
    [fsys EXCEPT ![out_csv_path] =
        [exists |-> TRUE,
         header |-> <<"ID", feature_name>>,
         rows |-> [i \in 1..Len(volumes) |-> DictRow(volumes[i], feature_name)]]]

\* Modal.create_roi_volume_csv and Modal.create_roi_mean_csv: reduce is the
\* outcome of mask.get_all_masked_volume / get_all_masked_mean
create_roi_csv(fsys, image_path, out_csv_path, feature_name, reduce) ==
    IF ~Exists(fsys, image_path)
    THEN [err |-> "FileNotFoundError", fs |-> fsys]
    ELSE IF ~reduce.ok
    THEN [err |-> "ReduceError", fs |-> fsys]
    ELSE [err |-> "none",
          fs |-> WriteCsv(fsys, out_csv_path, feature_name, reduce.volumes)]

ECall(op, dest, feature_name, volumes, kwargs) ==
    [op |-> op, dest |-> dest, feature_name |-> feature_name,
     volumes |-> volumes, kwargs |-> kwargs]

NoReduction == [ok |-> FALSE, volumes |-> <<>>]
Reductions == {[ok |-> TRUE, volumes |-> r] : r \in ROIResults} \cup {NoReduction}

\* create_roi_volume_csv as the object's class dispatches it: T1 and Dti
\* build the paths from names, Asl inherits the base method, which takes
\* the paths as given by the caller
CreateRoiVolumeCsv ==
    \E image_name \in ImageNames, out_name \in OutNames,
       feature_name \in FeatureNames, mask_ok \in BOOLEAN :
        LET use_mark == (cls = "T1")
            image_path == build_path(cls, image_name, use_mark)
            out_csv_path == build_path(cls, out_name, use_mark)
        IN  \* the reduction is reached only when the image was loaded
            \E reduce \in IF Exists(fs, image_path) /\ mask_ok
                          THEN Reductions ELSE {NoReduction} :
            \E r \in {IF cls = "Dti" /\ ~mask_ok
                      THEN [err |-> "MaskError", fs |-> fs]
                      ELSE create_roi_csv(fs, image_path, out_csv_path,
                                          feature_name, reduce)} :
            /\ (cls # "Dti" => mask_ok)
            /\ fs' = r.fs
            /\ eerr' = r.err
            /\ changed' = (r.fs # fs)
            /\ existed' = fs[out_csv_path].exists
            /\ ecall' = ECall("create_roi_volume_csv", out_csv_path, feature_name,
                              IF r.err = "none" THEN reduce.volumes ELSE <<>>, {})
            /\ table' = NoFile
            /\ reader_kwargs' = {}
            /\ UNCHANGED <<cls, mvars>>

\* create_roi_mean_csv: Asl builds the paths from names (no mark), T1 and
\* Dti inherit the base method
CreateRoiMeanCsv ==
    \E image_name \in ImageNames, out_name \in OutNames,
       feature_name \in FeatureNames :
        LET image_path == build_path(cls, image_name, FALSE)
            out_csv_path == build_path(cls, out_name, FALSE)
        IN  \E reduce \in IF Exists(fs, image_path)
                          THEN Reductions ELSE {NoReduction} :
            \E r \in {create_roi_csv(fs, image_path, out_csv_path,
                                     feature_name, reduce)} :
            /\ fs' = r.fs
            /\ eerr' = r.err
            /\ changed' = (r.fs # fs)
            /\ existed' = fs[out_csv_path].exists
            /\ ecall' = ECall("create_roi_mean_csv", out_csv_path, feature_name,
                              IF r.err = "none" THEN reduce.volumes ELSE <<>>, {})
            /\ table' = NoFile
            /\ reader_kwargs' = {}
            /\ UNCHANGED <<cls, mvars>>


----------------------------------------------------------------------------
\* T1.create_roi_ct_from_cat

\* str.lower() on the characters used in region names
Lower(ch) ==
    IF ch = "L" THEN "l" ELSE IF ch = "R" THEN "r" ELSE IF ch = "A" THEN "a"
    ELSE IF ch = "B" THEN "b" ELSE IF ch = "Z" THEN "z" ELSE ch

\* region names of the xml report, as sequences of characters
ItemNames == { <<"l", "A", "L">>, <<"r", "A", "/", "B", "R">>,
               <<"l", "B">>, <<"r", "Z", "R">> }

\* name.replace('/', '-')
ReplaceSlash(name) ==
    [i \in 1..Len(name) |-> IF name[i] = "/" THEN "-" ELSE name[i]]

\* the name-id chart read from cortical_id_path (index column: name)
InChart(name) == name \in {<<"A", "L">>, <<"A", "-", "B", "R">>}
ChartId(name) == IF name = <<"A", "L">> THEN 1 ELSE 2

\* thickness text: pieces separated by spaces; 'NaN' becomes -1
ParseThickness(text) ==
    [i \in 1..Len(text) |-> IF text[i] = "NaN" THEN -1 ELSE 2]

\* the thickness texts of the reports: one value per item with a leading
\* NaN, or a single value
ThicknessTexts ==
    { [i \in 1..MaxItems |-> IF i = 1 THEN "NaN" ELSE "2"], <<"2">> }

\* the reports: up to MaxItems distinct region names and a thickness text
XmlDocs ==
    {[items |-> it, thickness |-> th] :
        it \in {x \in UNION {[1..n -> ItemNames] : n \in 0..MaxItems} :
                    \A i, j \in 1..Len(x) : i # j => x[i] # x[j]},
        th \in ThicknessTexts}

\* the loop over zip(items, thickness_list): the rows written and the
\* exception that ended it (id_df.loc[name] raises KeyError)
RECURSIVE CtRows(_, _, _)
CtRows(items, thickness_list, rows) ==
    IF items = <<>> \/ thickness_list = <<>>
    THEN [err |-> "none", rows |-> rows]
    ELSE LET name == Head(items)
             special == Lower(name[1]) = Lower(name[Len(name)])
             key == ReplaceSlash(Tail(name))
         IN  IF ~special
             THEN CtRows(Tail(items), Tail(thickness_list), rows)
             ELSE IF ~InChart(key)
             THEN [err |-> "KeyError", rows |-> rows]
             ELSE CtRows(Tail(items), Tail(thickness_list),
                         Append(rows, <<ChartId(key), Head(thickness_list)>>))

\* ok says whether the report holds the atlas node and whether the chart
\* at cortical_id_path can be read.  A report with the atlas node is taken
\* to hold its names element and non-empty item texts
create_roi_ct_from_cat(fsys, c, filename, out_csv_filename, doc, ok) ==
    LET out_csv_path == build_path(c, out_csv_filename, TRUE)
        loop == CtRows(doc.items, ParseThickness(doc.thickness), <<>>)
    IN  IF ~Exists(fsys, build_path(c, filename, TRUE))
        THEN [err |-> "FileNotFoundError", fs |-> fsys]
        ELSE IF ~ok.atlas
        THEN [err |-> "AttributeError", fs |-> fsys]
        ELSE IF ~ok.chart
        THEN [err |-> "FileNotFoundError", fs |-> fsys]
        ELSE [err |-> loop.err,
              fs |-> [fsys EXCEPT ![out_csv_path] =
                        [exists |-> TRUE, header |-> <<"ID", "CT">>,
                         rows |-> loop.rows]]]

CreateRoiCtFromCat ==
    /\ cls = "T1"
    /\ \E filename \in XmlNames, out_name \in OutNames,
          has_atlas \in BOOLEAN, has_chart \in BOOLEAN :
        \* the report's content matters only when the loop is reached
        \E doc \in IF Exists(fs, build_path(cls, filename, TRUE))
                       /\ has_atlas /\ has_chart
                    THEN XmlDocs
                    ELSE {[items |-> <<>>, thickness |-> <<"2">>]} :
        \E r \in {create_roi_ct_from_cat(fs, cls, filename, out_name, doc,
                    [atlas |-> has_atlas, chart |-> has_chart])} :
            /\ fs' = r.fs
            /\ eerr' = r.err
            /\ changed' = (r.fs # fs)
            /\ existed' = fs[build_path(cls, out_name, TRUE)].exists
            /\ ecall' = ECall("create_roi_ct_from_cat",
                              build_path(cls, out_name, TRUE), "CT", <<>>, {})
            /\ table' = NoFile
            /\ reader_kwargs' = {}
            /\ UNCHANGED <<cls, mvars>>

----------------------------------------------------------------------------
\* load_csv

KwargInputs == {{}, {"index_col"}}

\* Modal.load_csv(csv_path, **kwargs)
Modal_load_csv(fsys, csv_path, kwargs) ==
    IF ~Exists(fsys, csv_path)
    THEN [err |-> "FileNotFoundError", table |-> NoFile, reader_kwargs |-> {}]
    ELSE [err |-> "none", table |-> fsys[csv_path], reader_kwargs |-> kwargs]

\* load_csv as overridden by the subclass c.  Asl and T1 call the base
\* method without the keyword arguments; Dti passes the kwargs dict as a
\* second positional argument, which the base signature does not accept
load_csv(fsys, c, csv_name, kwargs) ==
    IF c = "Asl" THEN Modal_load_csv(fsys, build_path(c, csv_name, FALSE), {})
    ELSE IF c = "T1" THEN Modal_load_csv(fsys, build_path(c, csv_name, TRUE), {})
    ELSE [err |-> "TypeError", table |-> NoFile, reader_kwargs |-> {}]

LoadCsv ==
    \E csv_name \in OutNames, kwargs \in KwargInputs :
        \E r \in {load_csv(fs, cls, csv_name, kwargs)} :
            /\ eerr' = r.err
            /\ table' = r.table
            /\ reader_kwargs' = r.reader_kwargs
            /\ changed' = FALSE
            /\ existed' = fs[build_path(cls, csv_name, cls = "T1")].exists
            /\ ecall' = ECall("load_csv", build_path(cls, csv_name, cls = "T1"),
                              "", <<>>, kwargs)
            /\ UNCHANGED <<cls, mvars, fs>>

----------------------------------------------------------------------------
\* specifications

InitExport ==
    /\ fs = [p \in CsvPaths |-> NoFile]
    /\ ecall = ECall("", <<>>, "", <<>>, {})
    /\ eerr = "none"
    /\ changed = FALSE
    /\ existed = FALSE
    /\ table = NoFile
    /\ reader_kwargs = {}

Init == cls \in Classes /\ InitMetrics /\ InitExport

NextMetrics == LoadGraphMetrics \/ GetGlobalMetric \/ GetNodalMetric

NextExport ==
    CreateRoiVolumeCsv \/ CreateRoiMeanCsv \/ CreateRoiCtFromCat \/ LoadCsv

Next == NextMetrics \/ NextExport

\* the metric selection of one object
SpecMetrics == Init /\ [][NextMetrics]_vars
\* the exports and load_csv of one object
SpecExport == Init /\ [][NextExport]_vars
Spec == Init /\ [][Next]_vars


----------------------------------------------------------------------------
\* properties of the metric selection (SpecMetrics)

MetricOps == {"get_global_metric", "get_nodal_metric"}
ThresholdTypes == {"intensity", "sparsity"}

\* the call names a mat file on disk and a threshold family of the store
ValidStore(c) == c.mat_name \in MatNames /\ c.threshold_type \in ThresholdTypes

\* the threshold value of the call is one of the stored values
Stored(c) ==
    InList(threshold_values(Mat(c.mat_name), c.threshold_type), c.threshold_value)

\* the metric exists in the store with the scope the call asks for
HasScope(c) ==
    IF c.op = "get_nodal_metric" THEN c.metric_name = "degree"
    ELSE c.metric_name \in {"degree", "transitivity", "resilience"}

\* the store entry that matches the call's own threshold_type and value
SelectedEntry(c) ==
    load_graph_metrics(<<>>, c.mat_name, c.threshold_type,
                       c.threshold_value).metrics[1]

\* every nodal series of metric_name held by mat file m
NodalDataOf(m, metric_name) ==
    {NodalWalk(Entry(m, t, i), metric_name).ret : t \in ThresholdTypes, i \in {0, 1}}

\* C1: a metric selection on an existing store with threshold_type intensity
\* or sparsity succeeds if and only if threshold_value equals one of the
\* stored threshold values; otherwise it fails with the lookup error (the
\* ValueError of list.index) and returns nothing.
C1_ExactMatchLookup ==
    (call.op \in MetricOps /\ ValidStore(call) /\ HasScope(call))
        => /\ (err = "none") <=> Stored(call)
           /\ err # "none" => (err = "ValueError" /\ ret = NoRet)

\* C2: a successful get_nodal_metric returns the nodal series of the store
\* entry matching the call's own threshold_type and threshold_value,
\* whatever earlier calls on the object selected.
C2_SelectionPerCall ==
    (call.op = "get_nodal_metric" /\ err = "none" /\ ValidStore(call)
        /\ Stored(call) /\ src = call.mat_name)
        => ret = NodalWalk(SelectedEntry(call), call.metric_name).ret

\* C3: once the cache was populated from mat file A, a get_nodal_metric
\* naming another mat file B never returns data taken from A.
C3_MatNameMatches ==
    (call.op = "get_nodal_metric" /\ err = "none" /\ was_set
        /\ src # call.mat_name)
        => ret \notin NodalDataOf(src, call.metric_name)

\* C4: once self.metrics is populated, no later get_global_metric or
\* get_nodal_metric reads a mat file again or replaces the cached content.
C4_LoadedOnce ==
    (call.op \in MetricOps /\ was_set) => (~loaded /\ kept)

\* a 2-D array of numbers with rows rows and cols columns
IsMatrix(x, rows, cols) ==
    /\ x.k = "arr" /\ Len(x.e) = rows
    /\ \A i \in 1..rows :
        /\ x.e[i].k = "arr" /\ Len(x.e[i].e) = cols
        /\ \A j \in 1..cols : x.e[i].e[j].k = "num"

\* C5 as stated: every successful get_global_metric returns a single
\* number, 'resilience' included.
C5_GlobalIsNumber ==
    (call.op = "get_global_metric" /\ err = "none") => ret.k = "num"

\* C5 amended: a successful get_global_metric returns a single number for
\* every metric name other than 'resilience'; for 'resilience' it returns
\* the (n, 2) array of the record's slot 0.
C5_GlobalShape ==
    (call.op = "get_global_metric" /\ err = "none")
        => IF call.metric_name = "resilience"
           THEN IsMatrix(ret, NumROI, 2)
           ELSE ret.k = "num"

C5_Witness ==
    /\ call.op = "get_global_metric" /\ err = "none"
    /\ call.metric_name = "resilience" /\ IsMatrix(ret, NumROI, 2)

\* s is the first Len(s) elements of t
IsPrefix(s, t) == Len(s) <= Len(t) /\ SubSeq(t, 1, Len(s)) = s

OtherMetrics == {"degree", "transitivity"}

\* C6 as stated: the walk for 'resilience' is exactly one index step
\* shorter than the walk for the other metric names, from the same record.
C6_OneLevelFewer ==
    (call.op = "get_global_metric" /\ err = "none")
        => /\ ret = Descend(Field(metrics[1], call.metric_name), path)
           /\ IF call.metric_name = "resilience"
              THEN \A m \in OtherMetrics :
                      /\ IsPrefix(path, GlobalPath(m))
                      /\ Len(GlobalPath(m)) = Len(path) + 1
              ELSE /\ IsPrefix(GlobalPath("resilience"), path)
                   /\ Len(path) = Len(GlobalPath("resilience")) + 1

\* C6 amended: the walk for 'resilience' is the walk of the other metric
\* names without its last two [0] steps (five index steps instead of
\* seven, i.e. without the unwrapping of the final 1x1 2-D array); both
\* start from the metric record of the selected threshold entry.
C6_TwoStepsFewer ==
    (call.op = "get_global_metric" /\ err = "none")
        => /\ ret = Descend(Field(metrics[1], call.metric_name), path)
           /\ IF call.metric_name = "resilience"
              THEN \A m \in OtherMetrics :
                      /\ IsPrefix(path, GlobalPath(m))
                      /\ Len(GlobalPath(m)) = Len(path) + 2
              ELSE /\ IsPrefix(GlobalPath("resilience"), path)
                   /\ Len(path) = Len(GlobalPath("resilience")) + 2

C6_Witness ==
    /\ call.op = "get_global_metric" /\ err = "none"
    /\ call.metric_name = "degree" /\ ret.k = "num"
    /\ Descend(Field(metrics[1], "degree"), GlobalPath("resilience")) = Wrap2(ret)

LoadErrors == {"ValueError", "UnboundLocalError", "FileNotFoundError"}

\* C10: a metric call that fails because the threshold value has no exact
\* match, the threshold_type is unknown or the mat file cannot be loaded
\* leaves self.metrics as it was before the call.
C10_FailedLoadKeepsCache ==
    (call.op \in MetricOps \cup {"load_graph_metrics"} /\ err \in LoadErrors)
        => kept

C10_Witness ==
    /\ call.op = "get_global_metric" /\ err = "ValueError"
    /\ was_set /\ kept /\ metrics # <<>>

----------------------------------------------------------------------------
\* properties of the exports and of load_csv (SpecExport)

RoiExports == {"create_roi_volume_csv", "create_roi_mean_csv"}
Exports == RoiExports \cup {"create_roi_ct_from_cat"}

\* C7: after a successful ROI export the destination holds exactly that
\* call's output: the header 'ID,<feature_name>' and one row per region of
\* the call's ROI result, in its order, nothing of earlier calls.
C7_LastExportWins ==
    (ecall.op \in RoiExports /\ eerr = "none")
        => LET file == fs[ecall.dest]
           IN  /\ file.exists
               /\ file.header = <<"ID", ecall.feature_name>>
               /\ Len(file.rows) = Len(ecall.volumes)
               /\ \A i \in 1..Len(ecall.volumes) :
                    /\ file.rows[i][2] = ecall.volumes[i][2]
                    /\ ecall.feature_name # "ID"
                        => file.rows[i][1] = ecall.volumes[i][1]

C7_Witness ==
    /\ ecall.op \in RoiExports /\ eerr = "none"
    /\ existed /\ changed
    /\ Len(ecall.volumes) = 1 /\ Len(fs[ecall.dest].rows) = 1

\* C8: an export that ends in an error leaves the destination as it was
\* before the call.
C8_NoPartialWrite ==
    (ecall.op \in Exports /\ eerr # "none") => ~changed

\* C9: load_csv of every subclass raises FileNotFoundError for a missing
\* path, and otherwise returns the table and hands the caller's keyword
\* arguments to the reader.
C9_LoadCsv ==
    ecall.op = "load_csv"
        => IF Exists(fs, ecall.dest)
           THEN /\ eerr = "none"
                /\ table = fs[ecall.dest]
                /\ reader_kwargs = ecall.kwargs
           ELSE eerr = "FileNotFoundError"

====
